---- MODULE Spec2Model ----
(***************************************************************************)
(* Model of the advmdata core: ADVMConfigParam (validated configuration   *)
(* store, compatibility test) and ADVMData (container, add_data merge).   *)
(***************************************************************************)
EXTENDS Integers, Sequences, FiniteSets, TLC

(***************************************************************************)
(* Bounds of the model.                                                    *)
(***************************************************************************)
\* numeric inputs range over MinNum..MaxNum
MaxNum == 2
\* calls made in one behaviour of SpecCfg
MaxCfgOps == 2
\* calls made in one behaviour of Spec
MaxOps == 3
\* timestamps are 1..NumTimes
NumTimes == 2

MinNum == 0 - 1

(***************************************************************************)
(* Python values.  t is the type, n the numeric value (int, float, bool), *)
(* s the text (str).  float('nan') has its own tag: it is a float that    *)
(* compares unequal to everything and for which every ordering is false.  *)
(***************************************************************************)
PyInt(n)   == [t |-> "int",   n |-> n, s |-> ""]
PyFloat(n) == [t |-> "float", n |-> n, s |-> ""]
PyBool(b)  == [t |-> "bool",  n |-> IF b THEN 1 ELSE 0, s |-> ""]
PyStr(s)   == [t |-> "str",   n |-> 0, s |-> s]
PyNone     == [t |-> "none",  n |-> 0, s |-> ""]
NaN        == [t |-> "nan",   n |-> 0, s |-> ""]

Values ==
    {NaN, PyNone, PyBool(TRUE), PyBool(FALSE)}
        \cup {PyInt(n) : n \in MinNum..MaxNum}
        \cup {PyFloat(n) : n \in MinNum..MaxNum}
        \cup {PyStr(s) : s \in {"Horizontal", "Vertical", "SL"}}

IsNum(v) == v.t \in {"int", "float", "bool"}

\* a == b taken as "the same object or equal", as a list or dict comparison does
PyEq_Identity(a, b) ==
    IF a = b THEN TRUE
    ELSE IF IsNum(a) /\ IsNum(b) THEN a.n = b.n
    ELSE FALSE

\* a == b
PyEq(a, b) ==
    IF IsNum(a) /\ IsNum(b) THEN a.n = b.n
    ELSE IF a.t = "str" /\ b.t = "str" THEN a.s = b.s
    ELSE IF a.t = "none" /\ b.t = "none" THEN TRUE
    ELSE FALSE

\* c <= value for an int literal c: "T", "F", or "TypeError" (str, None)
PyLe(c, v) ==
    IF IsNum(v) THEN (IF c <= v.n THEN "T" ELSE "F")
    ELSE IF v.t = "nan" THEN "F"
    ELSE "TypeError"

\* isinstance(value, int): bool is a subclass of int
IsInstanceInt(v) == v.t \in {"int", "bool"}

\* isinstance(value, (int, float))
IsInstanceIntFloat(v) == v.t \in {"int", "bool", "float", "nan"}

(***************************************************************************)
(* ADVMConfigParam                                                         *)
(***************************************************************************)
valid_keys ==
    <<"Frequency", "Effective Transducer Diameter", "Beam Orientation", "Slant Angle",
      "Blanking Distance", "Cell Size", "Number of Cells", "Number of Beams">>

\* keys_to_check without its last key
keys_to_check_NoCells ==
    <<"Frequency", "Slant Angle", "Blanking Distance", "Cell Size">>

keys_to_check ==
    <<"Frequency", "Slant Angle", "Blanking Distance", "Cell Size", "Number of Cells">>

other_keys ==
    {"Frequency", "Effective Transducer Diameter", "Slant Angle", "Blanking Distance", "Cell Size"}

SeqRange(q) == {q[i] : i \in 1..Len(q)}

\* keys a caller may pass: the valid ones and one that is not
AllKeys == SeqRange(valid_keys) \cup {"Instrument"}

\* ADVMConfigParam(): every valid key holds NaN
NewConfig == [k \in SeqRange(valid_keys) |-> NaN]

\* self._dict[key] = value: a key the dict does not hold is added
DictSet(d, key, value) == [k \in DOMAIN d \cup {key} |-> IF k = key THEN value ELSE d[k]]

\* _check_key: "ok" or "KeyError"
_check_key(d, key) == IF key \notin DOMAIN d THEN "KeyError" ELSE "ok"

\* the condition of one elif branch, "a and b" with b evaluated after a
AndLe(c, v, inst) ==
    LET le == PyLe(c, v)
    IN IF le = "TypeError" THEN "TypeError"
       ELSE IF le = "T" /\ inst THEN "T" ELSE "F"

\* _check_value with 0 <= value in the test of Number of Cells
_check_value_ZeroCells(d, key, value) ==
    IF _check_key(d, key) # "ok" THEN "KeyError"
    ELSE IF key = "Beam Orientation"
                /\ (PyEq(value, PyStr("Horizontal")) \/ PyEq(value, PyStr("Vertical")))
        THEN "ok"
    ELSE LET c1 == IF key \in {"Number of Cells", "Number of Beams"}
                     THEN AndLe(0, value, IsInstanceInt(value)) ELSE "F"
         IN IF c1 = "TypeError" THEN "TypeError"
            ELSE IF c1 = "T" THEN "ok"
            ELSE LET c3 == IF key \in other_keys
                             THEN AndLe(0, value, IsInstanceIntFloat(value)) ELSE "F"
                 IN IF c3 = "TypeError" THEN "TypeError"
                    ELSE IF c3 = "T" THEN "ok"
                    ELSE "ValueError"

\* _check_value without its call of _check_key
_check_value_NoKeyCheck(d, key, value) ==
    IF key = "Beam Orientation"
            /\ (PyEq(value, PyStr("Horizontal")) \/ PyEq(value, PyStr("Vertical")))
        THEN "ok"
    ELSE LET c1 == IF key = "Number of Cells" THEN AndLe(1, value, IsInstanceInt(value)) ELSE "F"
         IN IF c1 = "TypeError" THEN "TypeError"
            ELSE IF c1 = "T" THEN "ok"
            ELSE LET c2 == IF key = "Number of Beams"
                             THEN AndLe(0, value, IsInstanceInt(value)) ELSE "F"
                 IN IF c2 = "TypeError" THEN "TypeError"
                    ELSE IF c2 = "T" THEN "ok"
                    ELSE LET c3 == IF key \in other_keys
                                     THEN AndLe(0, value, IsInstanceIntFloat(value)) ELSE "F"
                         IN IF c3 = "TypeError" THEN "TypeError"
                            ELSE IF c3 = "T" THEN "ok"
                            ELSE "ValueError"

\* _check_value: "ok", "KeyError", "ValueError" or "TypeError"
_check_value(d, key, value) ==
    IF _check_key(d, key) # "ok" THEN "KeyError"
    ELSE IF key = "Beam Orientation"
                /\ (PyEq(value, PyStr("Horizontal")) \/ PyEq(value, PyStr("Vertical")))
        THEN "ok"
    ELSE LET c1 == IF key = "Number of Cells" THEN AndLe(1, value, IsInstanceInt(value)) ELSE "F"
         IN IF c1 = "TypeError" THEN "TypeError"
            ELSE IF c1 = "T" THEN "ok"
            ELSE LET c2 == IF key = "Number of Beams"
                             THEN AndLe(0, value, IsInstanceInt(value)) ELSE "F"
                 IN IF c2 = "TypeError" THEN "TypeError"
                    ELSE IF c2 = "T" THEN "ok"
                    ELSE LET c3 == IF key \in other_keys
                                     THEN AndLe(0, value, IsInstanceIntFloat(value)) ELSE "F"
                         IN IF c3 = "TypeError" THEN "TypeError"
                            ELSE IF c3 = "T" THEN "ok"
                            ELSE "ValueError"

\* __setitem__ that stores without checking
__setitem___NoCheck(d, key, value) == [dict |-> DictSet(d, key, value), err |-> "ok"]

\* __setitem__ with its two statements in the other order
__setitem___StoreFirst(d, key, value) ==
    LET stored == DictSet(d, key, value)
    IN [dict |-> stored, err |-> _check_value(stored, key, value)]

\* __setitem__: the dict after the call and the error raised ("ok" if none)
__setitem__(d, key, value) ==
    LET e == _check_value(d, key, value)
    IN IF e = "ok" THEN [dict |-> DictSet(d, key, value), err |-> "ok"]
       ELSE [dict |-> d, err |-> e]

\* __getitem__: self._dict[key]
__getitem__(d, key) ==
    IF key \in DOMAIN d THEN [val |-> d[key], err |-> "ok"]
    ELSE [val |-> PyNone, err |-> "KeyError"]

\* update that checks every entry before it stores any
update_Atomic(d, items) ==
    LET bad == {n \in 1..Len(items) : _check_value(d, items[n][1], items[n][2]) # "ok"}
        first == CHOOSE n \in bad : \A m \in bad : n <= m
        last(k) == CHOOSE n \in 1..Len(items) :
                      items[n][1] = k /\ \A m \in 1..Len(items) : items[m][1] = k => m <= n
    IN IF bad # {}
       THEN [dict |-> d, err |-> _check_value(d, items[first][1], items[first][2])]
       ELSE [dict |-> [k \in DOMAIN d |->
                         IF \E n \in 1..Len(items) : items[n][1] = k
                         THEN items[last(k)][2] ELSE d[k]],
             err |-> "ok"]

\* update: the entries of the mapping in order, stopping at the first error
RECURSIVE update(_, _)
update(d, items) ==
    IF items = <<>> THEN [dict |-> d, err |-> "ok"]
    ELSE LET e == _check_value(d, items[1][1], items[1][2])
         IN IF e # "ok" THEN [dict |-> d, err |-> e]
            ELSE update(DictSet(d, items[1][1], items[1][2]), Tail(items))

\* the loop of is_compatible with the test of the if inverted
RECURSIVE CompatFrom_Inverted(_, _, _)
CompatFrom_Inverted(self, other, i) ==
    IF i > Len(keys_to_check) THEN TRUE
    ELSE IF PyEq(self[keys_to_check[i]], other[keys_to_check[i]]) THEN FALSE
    ELSE CompatFrom_Inverted(self, other, i + 1)

\* is_compatible: the loop over keys_to_check from position i, with its break
RECURSIVE CompatFrom(_, _, _)
CompatFrom(self, other, i) ==
    IF i > Len(keys_to_check) THEN TRUE
    ELSE IF ~ PyEq(self[keys_to_check[i]], other[keys_to_check[i]]) THEN FALSE
    ELSE CompatFrom(self, other, i + 1)

is_compatible(self, other) == CompatFrom(self, other, 1)

(***************************************************************************)
(* Column names are sequences of characters, so that the column pattern   *)
(* is matched character by character.                                      *)
(***************************************************************************)
Digits == {"0", "1", "2", "3", "4", "5", "6", "7", "8", "9"}

cTemp       == <<"T", "e", "m", "p">>
cVbeam      == <<"V", "b", "e", "a", "m">>
cCell01Amp1 == <<"C", "e", "l", "l", "0", "1", "A", "m", "p", "1">>
cCell01SNR1 == <<"C", "e", "l", "l", "0", "1", "S", "N", "R", "1">>
cCell01Vx   == <<"C", "e", "l", "l", "0", "1", "V", "x">>
cVelocityX  == <<"V", "e", "l", "o", "c", "i", "t", "y", "X">>
cVerticalBeam == <<"V", "e", "r", "t", "i", "c", "a", "l", " ", "B", "e", "a", "m">>
cCell01Vx1  == <<"C", "e", "l", "l", "0", "1", "V", "x", "1">>

\* re.search(r'^(Temp|Vbeam|Cell\d{2}(Amp|SNR)\d{1})$', name)
_advm_columns_regex(name) ==
    \/ name = cTemp
    \/ name = cVbeam
    \/ /\ Len(name) = 10
       /\ SubSeq(name, 1, 4) = <<"C", "e", "l", "l">>
       /\ name[5] \in Digits
       /\ name[6] \in Digits
       /\ SubSeq(name, 7, 9) \in {<<"A", "m", "p">>, <<"S", "N", "R">>}
       /\ name[10] \in Digits

(***************************************************************************)
(* DataManager (package linearmodel): a table indexed by timestamp and an *)
(* origin table of (variable, origin) rows.  NA is a missing value.       *)
(***************************************************************************)
NA == 0

Times == 1..NumTimes

\* the two data sets a caller reads: their columns, values and origin label
Sources == {1, 2}

SourceCols(p) ==
    IF p = 1 THEN {cTemp, cVbeam, cCell01Amp1, cVelocityX, cVerticalBeam}
    ELSE {cTemp, cCell01SNR1, cCell01Vx, cCell01Vx1}

SourceLabel(p) == IF p = 1 THEN "ds1" ELSE "ds2"

SetMin(S) == CHOOSE x \in S : \A y \in S : x <= y

\* the table of source p over the timestamps idx; source 2 has no
\* temperature in its first row
RawData(idx, p) ==
    [idx |-> idx, cols |-> SourceCols(p),
     val |-> [x \in idx \X SourceCols(p) |->
                IF p = 2 /\ x[1] = SetMin(idx) /\ x[2] = cTemp THEN NA ELSE p]]

\* DataManager.create_data_origin(df, origin): one row per column
create_data_origin(data, label) == {<<c, label>> : c \in data.cols}

DataManager(data, origin) == [data |-> data, origin |-> origin]

\* the value of (t, c) in a table, NA where the table has no such cell
CellOf(d, t, c) == IF t \in d.idx /\ c \in d.cols THEN d.val[<<t, c>>] ELSE NA

\* some (timestamp, variable) has a value on both sides
Concurrent(a, b) ==
    \E t \in a.idx \cap b.idx, c \in a.cols \cap b.cols :
        a.val[<<t, c>>] # NA /\ b.val[<<t, c>>] # NA

\* DataManager.add_data_manager(other, keep_curr_obs)
add_data_manager(self, other, keep_curr_obs) ==
    IF keep_curr_obs = "None" /\ Concurrent(self.data, other.data)
    THEN [err |-> "ConcurrentObservationError", dm |-> self]
    ELSE LET idx  == self.data.idx \cup other.data.idx
             cols == self.data.cols \cup other.data.cols
             merged(t, c) ==
                 LET s == CellOf(self.data, t, c)
                     o == CellOf(other.data, t, c)
                 IN IF s = NA THEN o
                    ELSE IF o = NA THEN s
                    ELSE IF keep_curr_obs = "True" THEN s ELSE o
         IN [err |-> "ok",
             dm  |-> DataManager([idx |-> idx, cols |-> cols,
                                  val |-> [x \in idx \X cols |-> merged(x[1], x[2])]],
                                 self.origin \cup other.origin)]

(***************************************************************************)
(* ADVMData                                                                *)
(***************************************************************************)
Classes == {"ArgonautADVMData", "SL3GADVMData"}

\* isinstance(other, type(self)) on the classes of other and self
IsInstance(otherCls, selfCls) == otherCls = selfCls

\* acoustic_data.filter(regex=...)
FilterData(d) ==
    LET keep == {c \in d.cols : _advm_columns_regex(c)}
    IN [idx |-> d.idx, cols |-> keep, val |-> [x \in d.idx \X keep |-> d.val[x]]]

\* a constructor that keeps every origin row
FilterOrigin_KeepAll(o) == o

\* the origin rows whose variable matches the pattern
FilterOrigin(o) == {r \in o : _advm_columns_regex(r[1])}

\* ADVMData.__init__ (through cls(data_manager, configuration_parameters))
ADVMData(cls, data_manager, configuration_parameters) ==
    [cls  |-> cls,
     conf |-> configuration_parameters,
     dm   |-> DataManager(FilterData(data_manager.data), FilterOrigin(data_manager.origin))]

\* add_data that does not pass keep_curr_obs on and always keeps its own rows
add_data_FixedPolicy(self, other, keep_curr_obs) ==
    IF ~ is_compatible(self.conf, other.conf) /\ IsInstance(other.cls, self.cls)
    THEN [err |-> "ADVMDataIncompatibleError", obj |-> self]
    ELSE LET other_data_manager == DataManager(other.dm.data, other.dm.origin)
             combined == add_data_manager(self.dm, other_data_manager, "True")
         IN IF combined.err # "ok" THEN [err |-> combined.err, obj |-> self]
            ELSE [err |-> "ok", obj |-> ADVMData(self.cls, combined.dm, self.conf)]

\* add_data that merges self into other
add_data_Swapped(self, other, keep_curr_obs) ==
    IF ~ is_compatible(self.conf, other.conf) /\ IsInstance(other.cls, self.cls)
    THEN [err |-> "ADVMDataIncompatibleError", obj |-> self]
    ELSE LET other_data_manager == DataManager(other.dm.data, other.dm.origin)
             combined == add_data_manager(other_data_manager, self.dm, keep_curr_obs)
         IN IF combined.err # "ok" THEN [err |-> combined.err, obj |-> self]
            ELSE [err |-> "ok", obj |-> ADVMData(self.cls, combined.dm, self.conf)]

\* add_data that wraps the merged data with other's class and configuration
add_data_OtherConf(self, other, keep_curr_obs) ==
    IF ~ is_compatible(self.conf, other.conf) /\ IsInstance(other.cls, self.cls)
    THEN [err |-> "ADVMDataIncompatibleError", obj |-> self]
    ELSE LET other_data_manager == DataManager(other.dm.data, other.dm.origin)
             combined == add_data_manager(self.dm, other_data_manager, keep_curr_obs)
         IN IF combined.err # "ok" THEN [err |-> combined.err, obj |-> self]
            ELSE [err |-> "ok", obj |-> ADVMData(other.cls, combined.dm, other.conf)]

\* ADVMData.__deepcopy__: a new object of the same class with a deep copy of
\* every attribute
__deepcopy__(self) == [cls |-> self.cls, conf |-> self.conf, dm |-> self.dm]

\* add_data that takes from other only the rows at timestamps self has not
add_data_NewRowsOnly(self, other, keep_curr_obs) ==
    IF ~ is_compatible(self.conf, other.conf) /\ IsInstance(other.cls, self.cls)
    THEN [err |-> "ADVMDataIncompatibleError", obj |-> self]
    ELSE LET rows == other.dm.data.idx \ self.dm.data.idx
             other_data == [idx |-> rows, cols |-> other.dm.data.cols,
                            val |-> [x \in rows \X other.dm.data.cols |-> other.dm.data.val[x]]]
             other_data_manager == DataManager(other_data, other.dm.origin)
             combined == add_data_manager(self.dm, other_data_manager, keep_curr_obs)
         IN IF combined.err # "ok" THEN [err |-> combined.err, obj |-> self]
            ELSE [err |-> "ok", obj |-> ADVMData(self.cls, combined.dm, self.conf)]

\* add_data that gives its result a new configuration
add_data_NewConf(self, other, keep_curr_obs) ==
    IF ~ is_compatible(self.conf, other.conf) /\ IsInstance(other.cls, self.cls)
    THEN [err |-> "ADVMDataIncompatibleError", obj |-> self]
    ELSE LET other_data_manager == DataManager(other.dm.data, other.dm.origin)
             combined == add_data_manager(self.dm, other_data_manager, keep_curr_obs)
         IN IF combined.err # "ok" THEN [err |-> combined.err, obj |-> self]
            ELSE [err |-> "ok", obj |-> ADVMData(self.cls, combined.dm, NewConfig)]

\* add_data that merges other's table without its provenance
add_data_NoOtherOrigin(self, other, keep_curr_obs) ==
    IF ~ is_compatible(self.conf, other.conf) /\ IsInstance(other.cls, self.cls)
    THEN [err |-> "ADVMDataIncompatibleError", obj |-> self]
    ELSE LET other_data_manager == DataManager(other.dm.data, {})
             combined == add_data_manager(self.dm, other_data_manager, keep_curr_obs)
         IN IF combined.err # "ok" THEN [err |-> combined.err, obj |-> self]
            ELSE [err |-> "ok", obj |-> ADVMData(self.cls, combined.dm, self.conf)]

\* add_data that does not pass keep_curr_obs on and merges without a policy
add_data_NoPolicy(self, other, keep_curr_obs) ==
    IF ~ is_compatible(self.conf, other.conf) /\ IsInstance(other.cls, self.cls)
    THEN [err |-> "ADVMDataIncompatibleError", obj |-> self]
    ELSE LET other_data_manager == DataManager(other.dm.data, other.dm.origin)
             combined == add_data_manager(self.dm, other_data_manager, "None")
         IN IF combined.err # "ok" THEN [err |-> combined.err, obj |-> self]
            ELSE [err |-> "ok", obj |-> ADVMData(self.cls, combined.dm, self.conf)]

\* add_data that wraps its own data manager again and merges nothing
add_data_NoMerge(self, other, keep_curr_obs) ==
    IF ~ is_compatible(self.conf, other.conf) /\ IsInstance(other.cls, self.cls)
    THEN [err |-> "ADVMDataIncompatibleError", obj |-> self]
    ELSE LET other_data_manager == DataManager(other.dm.data, other.dm.origin)
             combined == add_data_manager(self.dm, other_data_manager, keep_curr_obs)
         IN IF combined.err # "ok" THEN [err |-> combined.err, obj |-> self]
            ELSE [err |-> "ok", obj |-> ADVMData(self.cls, self.dm, self.conf)]

\* add_data that merges other's table under self's provenance
add_data_SelfOrigin(self, other, keep_curr_obs) ==
    IF ~ is_compatible(self.conf, other.conf) /\ IsInstance(other.cls, self.cls)
    THEN [err |-> "ADVMDataIncompatibleError", obj |-> self]
    ELSE LET other_data_manager == DataManager(other.dm.data, self.dm.origin)
             combined == add_data_manager(self.dm, other_data_manager, keep_curr_obs)
         IN IF combined.err # "ok" THEN [err |-> combined.err, obj |-> self]
            ELSE [err |-> "ok", obj |-> ADVMData(self.cls, combined.dm, self.conf)]

\* ADVMData.add_data: the error raised ("ok" if none) and the container returned
add_data(self, other, keep_curr_obs) ==
    IF ~ is_compatible(self.conf, other.conf) /\ IsInstance(other.cls, self.cls)
    THEN [err |-> "ADVMDataIncompatibleError", obj |-> self]
    ELSE LET other_data_manager == DataManager(other.dm.data, other.dm.origin)
             combined == add_data_manager(self.dm, other_data_manager, keep_curr_obs)
         IN IF combined.err # "ok" THEN [err |-> combined.err, obj |-> self]
            ELSE [err |-> "ok", obj |-> ADVMData(self.cls, combined.dm, self.conf)]

(***************************************************************************)
(* Cell range                                                              *)
(***************************************************************************)
\* the Nortek containers of nortek.py, besides the SonTek ones
NortekClasses == {"EZQADVMData", "AquadoppADVMData"}

DigitChar(d) == <<"0", "1", "2", "3", "4", "5", "6", "7", "8", "9">>[d + 1]

RECURSIVE Decimal(_)
Decimal(n) == IF n < 10 THEN <<DigitChar(n)>> ELSE Decimal(n \div 10) \o <<DigitChar(n % 10)>>

RECURSIVE ZeroPad(_, _)
ZeroPad(s, width) == IF Len(s) >= width THEN s ELSE ZeroPad(<<"0">> \o s, width)

\* column names with two digits
col_name_TwoDigits(cell) == <<"R">> \o ZeroPad(Decimal(cell), 2)

\* 'R{:03}'.format(cell)
col_name(cell) == <<"R">> \o ZeroPad(Decimal(cell), 3)

\* a float as a number of halves, or nan
Half(h) == [nan |-> FALSE, h |-> h]
NaNHalf == [nan |-> TRUE, h |-> 0]

\* every class with the offset of the Argonaut
first_cell_mid_point_SameOffset(cls, blanking_distance, cell_size) ==
    2 * blanking_distance + cell_size

\* twice the mid point of the first cell: blanking_distance + cell_size / 2 in
\* ArgonautADVMData and NortekADVMData, blanking_distance + 1.5*cell_size in
\* SL3GADVMData
first_cell_mid_point(cls, blanking_distance, cell_size) ==
    IF cls = "SL3GADVMData" THEN 2 * blanking_distance + 3 * cell_size
    ELSE 2 * blanking_distance + cell_size

\* np.linspace(start, stop, num=num) on numbers of halves
linspace(start, stop, num) ==
    [i \in 1..num |-> IF num = 1 THEN start
                      ELSE start + ((i - 1) * (stop - start)) \div (num - 1)]

\* _calc_cell_range of the class of self: the error raised ("ok" if none) and
\* the table returned
_calc_cell_range(self) ==
    LET blanking_distance == self.conf["Blanking Distance"]
        cell_size         == self.conf["Cell Size"]
        number_of_cells   == self.conf["Number of Cells"]
        acoustic_data     == self.dm.data
    IN IF number_of_cells.t \notin {"int", "bool"}
       THEN [err |-> "TypeError", table |-> [idx |-> {}, cols |-> {}, val |-> <<>>]]
       ELSE IF number_of_cells.n < 0
       THEN [err |-> "ValueError", table |-> [idx |-> {}, cols |-> {}, val |-> <<>>]]
       ELSE LET num   == number_of_cells.n
                first == first_cell_mid_point(self.cls, blanking_distance.n, cell_size.n)
                last  == first + (num - 1) * 2 * cell_size.n
                cell_range == linspace(first, last, num)
                col_names  == {col_name(cell) : cell \in 1..num}
                cell_of(c) == CHOOSE cell \in 1..num : col_name(cell) = c
            IN [err |-> "ok",
                table |-> [idx  |-> acoustic_data.idx,
                           cols |-> col_names,
                           val  |-> [x \in acoustic_data.idx \X col_names |->
                                        IF IsNum(blanking_distance) /\ IsNum(cell_size)
                                        THEN Half(cell_range[cell_of(x[2])])
                                        ELSE NaNHalf]]]

\* ADVMData.get_cell_range
get_cell_range(self) == _calc_cell_range(self)

(***************************************************************************)
(* Inputs of the calls                                                     *)
(***************************************************************************)
\* a complete configuration mapping, as a caller builds it from a control file
FullItems ==
    <<<<"Beam Orientation", PyStr("Horizontal")>>,
      <<"Frequency", PyFloat(2)>>,
      <<"Effective Transducer Diameter", PyFloat(1)>>,
      <<"Number of Beams", PyInt(2)>>,
      <<"Slant Angle", PyFloat(2)>>,
      <<"Blanking Distance", PyFloat(1)>>,
      <<"Cell Size", PyFloat(1)>>,
      <<"Number of Cells", PyInt(2)>>>>

CellItems == <<<<"Cell Size", PyFloat(2)>>>>

BeamsItems == <<<<"Number of Beams", PyInt(1)>>, <<"Beam Orientation", PyStr("Vertical")>>>>

\* the second entry is invalid
BadItems ==
    <<<<"Frequency", PyInt(1)>>, <<"Cell Size", PyFloat(MinNum)>>, <<"Slant Angle", PyInt(1)>>>>

\* the mapping of a format reader: it starts with the instrument code
InstrumentItems == <<<<"Instrument", PyStr("SL")>>>> \o FullItems

UpdateMenu == {FullItems, CellItems, BeamsItems, BadItems, InstrumentItems}

\* the configurations a caller passes to the constructor
Configured(items) == update(NewConfig, items).dict

ConfigMenu ==
    {NewConfig, Configured(FullItems), Configured(FullItems \o CellItems),
     Configured(FullItems \o BeamsItems)}

\* one cell more, further from the transducer
RangeItems == <<<<"Blanking Distance", PyFloat(2)>>, <<"Number of Cells", PyInt(MaxNum + 1)>>>>

\* the configurations of the containers whose cell range is asked for
RangeConfigs == {Configured(FullItems \o CellItems), Configured(FullItems \o RangeItems)}

(***************************************************************************)
(* Format readers                                                          *)
(* A string built by concatenation is the sequence of its pieces: a path,  *)
(* an instrument code, or one character of punctuation.                    *)
(***************************************************************************)
\* the data set paths handed to the readers
Paths == {"ARG1", "AQD"}

\* _read_mat_param: the mapping read from a .mat file, instrument type first
_read_mat_param ==
    <<<<"Instrument", PyStr("SL")>>,
      <<"Frequency", PyInt(2)>>,
      <<"Slant Angle", PyInt(2)>>,
      <<"Number of Beams", PyInt(2)>>,
      <<"Blanking Distance", PyFloat(1)>>,
      <<"Cell Size", PyFloat(1)>>,
      <<"Number of Cells", PyInt(2)>>>>

\* cls._instrument of the Nortek classes
_instrument(cls) == IF cls = "EZQADVMData" THEN "EZQ" ELSE "AQD"

\* NortekADVMData._read_config_param: update of a new configuration with
\* the mapping read from the .hdr file
_read_config_param(cls) ==
    update(NewConfig,
           <<<<"Frequency", PyFloat(2)>>,
             <<"Beam Orientation", PyStr("Horizontal")>>,
             <<"Slant Angle", PyFloat(2)>>,
             <<"Number of Beams", PyInt(2)>>,
             <<"Instrument", PyStr(_instrument(cls))>>,
             <<"Effective Transducer Diameter", PyFloat(1)>>>>)

\* a reader that raised e returns no container
Raised(e) == [err |-> e, label |-> <<>>, conf |-> NewConfig]

\* ArgonautADVMData.read_argonaut_data: the error raised ("ok" if none), the
\* origin label and the configuration of the container
read_argonaut_data(data_set_path, has_ctl) ==
    LET u == IF has_ctl THEN update(NewConfig, InstrumentItems)
             ELSE [dict |-> NewConfig, err |-> "ok"]
        g == __getitem__(u.dict, "Instrument")
    IN IF u.err # "ok" THEN Raised(u.err)
       ELSE IF g.err # "ok" THEN Raised(g.err)
       ELSE [err |-> "ok",
             label |-> <<data_set_path>> \o <<" ", "(">> \o <<g.val.s>> \o <<")">>,
             conf |-> u.dict]

\* SL3GADVMData.read_sl3g_mat
read_sl3g_mat(mat_file_path) ==
    LET u == update(NewConfig, _read_mat_param)
    IN IF u.err # "ok" THEN Raised(u.err)
       ELSE [err |-> "ok",
             label |-> <<mat_file_path>> \o <<"(", "SL3G", ")">>,
             conf |-> u.dict]

\* EZQADVMData.read_ezq_data
read_ezq_data(data_set_path, cell_size) ==
    LET u  == _read_config_param("EZQADVMData")
        s1 == __setitem__(u.dict, "Cell Size", cell_size)
        s2 == __setitem__(s1.dict, "Blanking Distance", PyFloat(1))
        s3 == __setitem__(s2.dict, "Number of Cells", PyInt(2))
    IN IF u.err # "ok" THEN Raised(u.err)
       ELSE IF s1.err # "ok" THEN Raised(s1.err)
       ELSE IF s2.err # "ok" THEN Raised(s2.err)
       ELSE IF s3.err # "ok" THEN Raised(s3.err)
       ELSE [err |-> "ok",
             label |-> <<data_set_path>> \o <<" ", "(", "EZQ", ")">>,
             conf |-> s3.dict]

\* AquadoppADVMData.read_aquadopp_data
read_aquadopp_data(data_set_path) ==
    LET u == _read_config_param("AquadoppADVMData")
    IN IF u.err # "ok" THEN Raised(u.err)
       ELSE [err |-> "ok",
             label |-> <<data_set_path>> \o <<"(", "AQD", ")">>,
             conf |-> u.dict]

CfgIds == {"c1", "c2"}

Policies == {"None", "True", "False"}

\* containers a caller constructs itself in one behaviour; add_data makes the others
NumBuilt == 2

(***************************************************************************)
(* State                                                                   *)
(***************************************************************************)
VARIABLES
    cfg,    \* the ADVMConfigParam objects of the caller: CfgIds -> _dict
    objs,   \* the ADVMData objects created so far, in order of creation
    res,    \* the last call: its arguments, the error raised, what it returned
    nops,   \* calls made so far
    link,   \* CfgIds -> 0 if cfg[c] is an object of the caller's own, n if it
            \* is the very object objs[n] holds as its configuration
    ret     \* the object the last accessor call handed to the caller

vars == <<cfg, objs, res, nops, link, ret>>

NoRes ==
    [op |-> "none", c |-> "", d |-> "", key |-> "", val |-> PyNone, items |-> <<>>,
     i |-> 0, j |-> 0,
     keep |-> "", err |-> "ok", ret |-> FALSE, out |-> 0, src |-> 0]

\* the caller holds no returned object
NoRet == [kind |-> "none", dm |-> DataManager([idx |-> {}, cols |-> {}, val |-> <<>>], {}),
          ref |-> 0]

\* the container objects after the object that handle c names got the value d
Stored(c, d) == IF link[c] = 0 THEN objs ELSE [objs EXCEPT ![link[c]].conf = d]

Init ==
    /\ cfg = [c \in CfgIds |-> NewConfig]
    /\ objs = <<>>
    /\ res = NoRes
    /\ nops = 0
    /\ link = [c \in CfgIds |-> 0]
    /\ ret = NoRet

(***************************************************************************)
(* Calls on a configuration                                                *)
(***************************************************************************)
\* cfg[c][key] = value
SetItem(c, key, value) ==
    LET r == __setitem__(cfg[c], key, value)
    IN /\ nops < MaxCfgOps
       /\ cfg' = [cfg EXCEPT ![c] = r.dict]
       /\ res' = [NoRes EXCEPT !.op = "set", !.c = c, !.key = key, !.val = value,
                               !.err = r.err]
       /\ nops' = nops + 1
       /\ objs' = Stored(c, r.dict)
       /\ UNCHANGED <<link, ret>>

\* cfg[c][key]
GetItem(c, key) ==
    LET r == __getitem__(cfg[c], key)
    IN /\ nops < MaxCfgOps
       /\ res' = [NoRes EXCEPT !.op = "get", !.c = c, !.key = key, !.err = r.err, !.val = r.val]
       /\ nops' = nops + 1
       /\ UNCHANGED <<cfg, objs, link, ret>>

\* cfg[c].update(items)
Update(c, items) ==
    LET r == update(cfg[c], items)
    IN /\ nops < MaxCfgOps
       /\ cfg' = [cfg EXCEPT ![c] = r.dict]
       /\ res' = [NoRes EXCEPT !.op = "update", !.c = c, !.items = items, !.err = r.err]
       /\ nops' = nops + 1
       /\ objs' = Stored(c, r.dict)
       /\ UNCHANGED <<link, ret>>

\* cfg[c].is_compatible(cfg[d])
IsCompatible(c, d) ==
    /\ nops < MaxCfgOps
    /\ res' = [NoRes EXCEPT !.op = "is_compatible", !.c = c, !.d = d,
                            !.ret = is_compatible(cfg[c], cfg[d])]
    /\ nops' = nops + 1
    /\ UNCHANGED <<cfg, objs, link, ret>>

\* cfg[d] = copy.deepcopy(cfg[c])
DeepCopy(c, d) ==
    /\ nops < MaxCfgOps
    /\ c # d
    /\ cfg' = [cfg EXCEPT ![d] = cfg[c]]
    /\ res' = [NoRes EXCEPT !.op = "deepcopy", !.c = c, !.d = d]
    /\ nops' = nops + 1
    /\ link' = [link EXCEPT ![d] = 0]
    /\ UNCHANGED <<objs, ret>>

(***************************************************************************)
(* Calls on a container                                                    *)
(***************************************************************************)
\* cls(DataManager(data, create_data_origin(data, label)), conf) for the
\* table of source p over the timestamps idx
Construct(cls, idx, p, conf) ==
    LET raw == RawData(idx, p)
        dm  == DataManager(raw, create_data_origin(raw, SourceLabel(p)))
    IN /\ nops < MaxOps
       /\ Len(objs) < NumBuilt
       /\ objs' = Append(objs, ADVMData(cls, dm, conf))
       /\ res' = [NoRes EXCEPT !.op = "construct", !.out = Len(objs) + 1, !.src = p]
       /\ nops' = nops + 1
       /\ UNCHANGED <<cfg, link, ret>>

\* add_data that stores the merged data in self instead of a new container
AddData_InPlace(i, j, keep_curr_obs) ==
    LET r == add_data(objs[i], objs[j], keep_curr_obs)
    IN /\ nops < MaxOps
       /\ objs' = IF r.err = "ok" THEN Append([objs EXCEPT ![i] = r.obj], r.obj) ELSE objs
       /\ res' = [NoRes EXCEPT !.op = "add_data", !.i = i, !.j = j, !.keep = keep_curr_obs,
                               !.err = r.err,
                               !.out = IF r.err = "ok" THEN Len(objs) + 1 ELSE 0]
       /\ nops' = nops + 1
       /\ UNCHANGED <<cfg, link, ret>>

\* objs[i].add_data(objs[j], keep_curr_obs)
AddData(i, j, keep_curr_obs) ==
    LET r == add_data(objs[i], objs[j], keep_curr_obs)
    IN /\ nops < MaxOps
       /\ objs' = IF r.err = "ok" THEN Append(objs, r.obj) ELSE objs
       /\ res' = [NoRes EXCEPT !.op = "add_data", !.i = i, !.j = j, !.keep = keep_curr_obs,
                               !.err = r.err,
                               !.out = IF r.err = "ok" THEN Len(objs) + 1 ELSE 0]
       /\ nops' = nops + 1
       /\ UNCHANGED <<cfg, link, ret>>

\* copy.deepcopy(objs[i])
DeepCopyData(i) ==
    /\ nops < MaxOps
    /\ objs' = Append(objs, __deepcopy__(objs[i]))
    /\ res' = [NoRes EXCEPT !.op = "deepcopy_data", !.i = i, !.out = Len(objs) + 1]
    /\ nops' = nops + 1
    /\ UNCHANGED <<cfg, link, ret>>

\* a call of a format reader of class cls that gave r: the container is
\* cls(DataManager(table, create_data_origin(table, label)), configuration)
Read(op, cls, data_set_path, p, r) ==
    LET raw == RawData(Times, p)
        dm  == DataManager(raw, create_data_origin(raw, r.label))
    IN /\ nops < MaxOps
       /\ Len(objs) < NumBuilt
       /\ objs' = IF r.err = "ok" THEN Append(objs, ADVMData(cls, dm, r.conf)) ELSE objs
       /\ res' = [NoRes EXCEPT !.op = op, !.c = data_set_path, !.err = r.err,
                               !.out = IF r.err = "ok" THEN Len(objs) + 1 ELSE 0]
       /\ nops' = nops + 1
       /\ UNCHANGED <<cfg, link, ret>>

ReadArgonautData(data_set_path, has_ctl) ==
    Read("read_argonaut_data", "ArgonautADVMData", data_set_path, 1,
         read_argonaut_data(data_set_path, has_ctl))

ReadSL3GMat(mat_file_path) ==
    Read("read_sl3g_mat", "SL3GADVMData", mat_file_path, 2, read_sl3g_mat(mat_file_path))

ReadEZQData(data_set_path, cell_size) ==
    Read("read_ezq_data", "EZQADVMData", data_set_path, 1,
         read_ezq_data(data_set_path, cell_size))

ReadAquadoppData(data_set_path) ==
    Read("read_aquadopp_data", "AquadoppADVMData", data_set_path, 1,
         read_aquadopp_data(data_set_path))

\* ret = objs[n].get_cell_range(); the call reads only and may follow the
\* last of the MaxOps calls
GetCellRange(n) ==
    LET r == get_cell_range(objs[n])
    IN /\ nops <= MaxOps
       /\ ret' = IF r.err = "ok"
                 THEN [kind |-> "cell_range", dm |-> DataManager(r.table, {}), ref |-> 0]
                 ELSE ret
       /\ res' = [NoRes EXCEPT !.op = "get_cell_range", !.i = n, !.err = r.err]
       /\ nops' = nops + 1
       /\ UNCHANGED <<cfg, objs, link>>

(***************************************************************************)
(* Objects shared between a container and its caller                       *)
(***************************************************************************)
\* a copy that is the object it was made from
deepcopy_SameObject(n) == n

\* copy.deepcopy(x) of an object of container n: a new object, held by no
\* container (0)
deepcopy(n) == 0

\* cls(DataManager(...), cfg[c]): the constructor is handed the caller's object
ConstructFrom(cls, idx, p, c) ==
    LET raw == RawData(idx, p)
        dm  == DataManager(raw, create_data_origin(raw, SourceLabel(p)))
    IN /\ nops < MaxOps
       /\ Len(objs) < NumBuilt
       /\ objs' = Append(objs, ADVMData(cls, dm, cfg[c]))
       /\ link' = [link EXCEPT ![c] = deepcopy(Len(objs) + 1)]
       /\ res' = [NoRes EXCEPT !.op = "construct", !.c = c, !.out = Len(objs) + 1, !.src = p]
       /\ nops' = nops + 1
       /\ UNCHANGED <<cfg, ret>>

\* cfg[c] = objs[n].get_configuration_parameters()
GetConfigurationParameters(n, c) ==
    /\ nops < MaxOps
    /\ cfg' = [cfg EXCEPT ![c] = objs[n].conf]
    /\ link' = [link EXCEPT ![c] = deepcopy(n)]
    /\ res' = [NoRes EXCEPT !.op = "get_configuration_parameters", !.c = c, !.i = n]
    /\ nops' = nops + 1
    /\ UNCHANGED <<objs, ret>>

\* ret = objs[n].get_data(): DataManager.get_data() hands out a copy
GetData(n) ==
    /\ nops < MaxOps
    /\ ret' = [kind |-> "data", dm |-> DataManager(objs[n].dm.data, {}), ref |-> 0]
    /\ res' = [NoRes EXCEPT !.op = "get_data", !.i = n]
    /\ nops' = nops + 1
    /\ UNCHANGED <<cfg, objs, link>>

\* ret = objs[n].get_origin(): DataManager.get_origin() hands out a copy
GetOrigin(n) ==
    /\ nops < MaxOps
    /\ ret' = [kind |-> "origin",
               dm |-> DataManager([idx |-> {}, cols |-> {}, val |-> <<>>], objs[n].dm.origin),
               ref |-> 0]
    /\ res' = [NoRes EXCEPT !.op = "get_origin", !.i = n]
    /\ nops' = nops + 1
    /\ UNCHANGED <<cfg, objs, link>>

\* ret = objs[n].get_data_manager()
GetDataManager(n) ==
    /\ nops < MaxOps
    /\ ret' = [kind |-> "data_manager", dm |-> objs[n].dm, ref |-> deepcopy(n)]
    /\ res' = [NoRes EXCEPT !.op = "get_data_manager", !.i = n]
    /\ nops' = nops + 1
    /\ UNCHANGED <<cfg, objs, link>>

\* the caller overwrites every value of the table and drops every row of the
\* provenance of an object it holds
Overwritten(dm) ==
    DataManager([dm.data EXCEPT !.val = [x \in dm.data.idx \X dm.data.cols |-> NA]], {})

\* the caller changes the object it was handed, in place
MutateReturned ==
    /\ nops < MaxOps
    /\ ret.kind # "none"
    /\ Overwritten(ret.dm) # ret.dm
    /\ ret' = [ret EXCEPT !.dm = Overwritten(ret.dm)]
    /\ objs' = IF ret.ref = 0 THEN objs
               ELSE [objs EXCEPT ![ret.ref].dm = Overwritten(ret.dm)]
    /\ res' = [NoRes EXCEPT !.op = "mutate"]
    /\ nops' = nops + 1
    /\ UNCHANGED <<cfg, link>>

\* the keys and values a caller writes into a configuration it holds
OwnKeys == {"Cell Size", "Number of Cells", "Instrument"}

OwnValues == {PyFloat(2), PyInt(1)}

OwnUpdates == {CellItems, BadItems}

NextCfg ==
    \/ \E key \in AllKeys, value \in Values : SetItem("c1", key, value)
    \/ \E key \in AllKeys : GetItem("c1", key)
    \/ \E items \in UpdateMenu : Update("c1", items)
    \/ \E c \in CfgIds, d \in CfgIds : IsCompatible(c, d)
    \/ \E c \in CfgIds, d \in CfgIds : DeepCopy(c, d)

Next ==
    \/ \E cls \in Classes, idx \in (SUBSET Times) \ {{}}, p \in Sources, conf \in ConfigMenu :
            Construct(cls, idx, p, conf)
    \/ \E i \in 1..Len(objs), j \in 1..Len(objs), keep \in Policies : AddData(i, j, keep)
    \/ \E i \in 1..Len(objs) : DeepCopyData(i)

\* a caller that holds a new configuration c1 and a configuration c2 built
\* earlier by update
InitCfg ==
    /\ cfg \in {f \in [CfgIds -> ConfigMenu] : f["c1"] = NewConfig}
    /\ objs = <<>>
    /\ res = NoRes
    /\ nops = 0
    /\ link = [c \in CfgIds |-> 0]
    /\ ret = NoRet

NextOwn ==
    \/ \E cls \in Classes, p \in Sources, c \in CfgIds : ConstructFrom(cls, Times, p, c)
    \/ \E n \in 1..Len(objs), c \in CfgIds : GetConfigurationParameters(n, c)
    \/ \E n \in 1..Len(objs) : GetData(n)
    \/ \E n \in 1..Len(objs) : GetOrigin(n)
    \/ \E n \in 1..Len(objs) : GetDataManager(n)
    \/ \E c \in CfgIds, key \in OwnKeys, value \in OwnValues : SetItem(c, key, value)
    \/ \E c \in CfgIds, items \in OwnUpdates : Update(c, items)
    \/ MutateReturned

NextRange ==
    \/ \E cls \in Classes \cup NortekClasses, idx \in {{1}, Times}, p \in Sources,
            conf \in RangeConfigs :
                Construct(cls, idx, p, conf)
    \/ \E i \in 1..Len(objs), j \in 1..Len(objs), keep \in Policies : AddData(i, j, keep)
    \/ \E n \in 1..Len(objs) : GetCellRange(n)
    \/ \E path \in Paths, has_ctl \in BOOLEAN : ReadArgonautData(path, has_ctl)
    \/ \E path \in Paths : ReadSL3GMat(path)
    \/ \E path \in Paths : ReadEZQData(path, PyFloat(1))
    \/ \E path \in Paths : ReadAquadoppData(path)

\* a caller that holds a loaded configuration c1, a new configuration c2 and
\* one container built from a table of source 1
InitOwn ==
    /\ cfg = [c \in CfgIds |-> IF c = "c1" THEN Configured(FullItems) ELSE NewConfig]
    /\ objs = <<ADVMData("ArgonautADVMData",
                         DataManager(RawData(Times, 1),
                                     create_data_origin(RawData(Times, 1), SourceLabel(1))),
                         Configured(FullItems \o CellItems))>>
    /\ res = NoRes
    /\ nops = 0
    /\ link = [c \in CfgIds |-> 0]
    /\ ret = NoRet

\* the configuration calls of a caller
SpecCfg == InitCfg /\ [][NextCfg]_vars

\* the container calls of a caller
Spec == Init /\ [][Next]_vars

\* the reader and cell range calls of a caller on containers of every class
SpecRange == Init /\ [][NextRange]_vars

\* the calls of a caller on the objects it passed to and got from containers
SpecOwn == InitOwn /\ [][NextOwn]_vars

(***************************************************************************)
(* Properties                                                              *)
(***************************************************************************)
\* the operands and the result of the last add_data
Self   == objs[res.i]
Other  == objs[res.j]
Result == objs[res.out]

IsAddData == res.op = "add_data"
Returned  == IsAddData /\ res.err = "ok"

\* (t, c) has a value in both tables
BothHave(a, b, t, c) == CellOf(a, t, c) # NA /\ CellOf(b, t, c) # NA

\* C1: add_data fails with ADVMDataIncompatibleError and returns no
\* container whenever self's configuration is not compatible with other's,
\* for every duplicate policy and whatever the classes of the two containers.
C1_IncompatibleAlwaysFails ==
    (IsAddData /\ ~ is_compatible(Self.conf, Other.conf))
        => (res.err = "ADVMDataIncompatibleError" /\ res.out = 0)

\* C2: for compatible containers, add_data without a duplicate policy fails
\* with the concurrent-observation error, and returns no container, whenever
\* some variable has a value at a timestamp shared by both operands.
C2_AmbiguousMergeFails ==
    (/\ IsAddData
     /\ res.keep = "None"
     /\ is_compatible(Self.conf, Other.conf)
     /\ \E t \in Times, c \in Self.dm.data.cols : BothHave(Self.dm.data, Other.dm.data, t, c))
        => (res.err = "ConcurrentObservationError" /\ res.out = 0)

C2_Witness ==
    /\ IsAddData
    /\ res.keep = "None"
    /\ res.i # res.j
    /\ is_compatible(Self.conf, Other.conf)
    /\ \E t \in Times, c \in Self.dm.data.cols : BothHave(Self.dm.data, Other.dm.data, t, c)
    /\ res.err = "ConcurrentObservationError"

\* C3: for compatible containers, at every (timestamp, variable) that has a
\* value in both operands the returned container holds self's value under
\* keep_curr_obs=True and other's value under keep_curr_obs=False.
C3_DuplicatePolicy ==
    (Returned /\ is_compatible(Self.conf, Other.conf))
        => \A t \in Times, c \in Self.dm.data.cols :
              BothHave(Self.dm.data, Other.dm.data, t, c)
                  => /\ res.keep = "True"
                          => CellOf(Result.dm.data, t, c) = CellOf(Self.dm.data, t, c)
                     /\ res.keep = "False"
                          => CellOf(Result.dm.data, t, c) = CellOf(Other.dm.data, t, c)

C3_Witness ==
    /\ Returned
    /\ res.keep = "False"
    /\ is_compatible(Self.conf, Other.conf)
    /\ \E t \in Times, c \in Self.dm.data.cols :
          /\ BothHave(Self.dm.data, Other.dm.data, t, c)
          /\ CellOf(Self.dm.data, t, c) # CellOf(Other.dm.data, t, c)
          /\ CellOf(Result.dm.data, t, c) = CellOf(Other.dm.data, t, c)

\* C4: every successful add_data returns a new container of self's class
\* whose configuration equals self's on every key, also on the keys on which
\* other's configuration differs.
C4_ResultKeepsSelfConfig ==
    Returned
        => /\ res.out = Len(objs)
           /\ res.out \notin {res.i, res.j}
           /\ Result.cls = Self.cls
           /\ \A k \in SeqRange(valid_keys) : Result.conf[k] = Self.conf[k]

C4_Witness ==
    /\ Returned
    /\ \E k \in SeqRange(valid_keys) : Other.conf[k] # Self.conf[k]
    /\ Result.conf = Self.conf

\* C5: add_data never changes its operands: whether it returns or fails,
\* every container that existed before the call, self and other included,
\* has the data, origin and configuration it had before.
C5_OperandsUntouched ==
    [][res'.op = "add_data" => \A n \in 1..Len(objs) : objs'[n] = objs[n]]_vars

C5_Witness ==
    /\ Returned
    /\ res.i # res.j
    /\ Result.dm # Self.dm
    /\ Result.dm # Other.dm

\* the comparison the claims speak of: the same number, or the same text;
\* an unset value is equal to nothing
ValueEqual(a, b) ==
    /\ a # NaN
    /\ b # NaN
    /\ \/ a = b
       \/ IsNum(a) /\ IsNum(b) /\ a.n = b.n

ComparedKeys ==
    {"Frequency", "Slant Angle", "Blanking Distance", "Cell Size", "Number of Cells"}

UncomparedKeys == {"Effective Transducer Diameter", "Beam Orientation", "Number of Beams"}

\* C6: is_compatible(a, b) is true exactly when a and b hold equal values
\* for each of the five compared keys; the values of the three other keys
\* never change the result.
C6_CompatibleIffFiveKeysEqual ==
    /\ \A c \in CfgIds, d \in CfgIds :
          is_compatible(cfg[c], cfg[d])
              <=> \A k \in ComparedKeys : ValueEqual(cfg[c][k], cfg[d][k])
    /\ res.op = "is_compatible"
          => LET a == cfg[res.c]
                 b == cfg[res.d]
             IN /\ res.ret <=> \A k \in ComparedKeys : ValueEqual(a[k], b[k])
                /\ \A k \in UncomparedKeys, v \in Values :
                      /\ is_compatible([a EXCEPT ![k] = v], b) = res.ret
                      /\ is_compatible(a, [b EXCEPT ![k] = v]) = res.ret

C6_Witness ==
    /\ res.op = "is_compatible"
    /\ res.ret
    /\ res.c # res.d
    /\ \E k \in UncomparedKeys : cfg[res.c][k] # cfg[res.d][k]

\* C7: is_compatible is false whenever one of the five compared keys is
\* unset on either side: for two new configurations, for a configuration
\* and itself, and for a configuration and its deep copy.
C7_UnsetNeverCompatible ==
    /\ \A c \in CfgIds, d \in CfgIds :
          (\E k \in ComparedKeys : cfg[c][k] = NaN \/ cfg[d][k] = NaN)
              => ~ is_compatible(cfg[c], cfg[d])
    /\ (res.op = "is_compatible"
          /\ \E k \in ComparedKeys : cfg[res.c][k] = NaN \/ cfg[res.d][k] = NaN)
              => ~ res.ret

C7_Witness ==
    /\ res.op = "is_compatible"
    /\ res.c # res.d
    /\ cfg[res.c] = NewConfig
    /\ cfg[res.d] = NewConfig
    /\ ~ res.ret

\* C8: add_data between two containers of the same class whose
\* configurations were never loaded (every compared key unset) succeeds
\* without a duplicate policy when their timestamps are disjoint, and
\* returns the merged data and origin.
C8_UnloadedConfigsMerge ==
    (/\ IsAddData
     /\ res.keep = "None"
     /\ Self.cls = Other.cls
     /\ Self.conf = NewConfig
     /\ Other.conf = NewConfig
     /\ Self.dm.data.idx \cap Other.dm.data.idx = {})
        => /\ res.err = "ok"
           /\ Result.dm.data.idx = Self.dm.data.idx \cup Other.dm.data.idx
           /\ Result.dm.origin = Self.dm.origin \cup Other.dm.origin

\* C9: is_compatible is symmetric for every pair of configurations, and
\* reflexive for every configuration with none of the compared keys unset.
C9_SymmetricReflexive ==
    \A c \in CfgIds, d \in CfgIds :
        /\ is_compatible(cfg[c], cfg[d]) = is_compatible(cfg[d], cfg[c])
        /\ (\A k \in ComparedKeys : cfg[c][k] # NaN) => is_compatible(cfg[c], cfg[c])

C9_Witness ==
    /\ res.op = "is_compatible"
    /\ res.c = res.d
    /\ \A k \in ComparedKeys : cfg[res.c][k] # NaN
    /\ res.ret

\* the validator of each key, as the documentation states it; a Python bool
\* is an int
IsInteger(v) == v.t \in {"int", "bool"}

IsNumber(v) == v.t \in {"int", "bool", "float"}

Validator(key, v) ==
    IF key = "Beam Orientation" THEN v \in {PyStr("Horizontal"), PyStr("Vertical")}
    ELSE IF key = "Number of Cells" THEN IsInteger(v) /\ v.n >= 1
    ELSE IF key = "Number of Beams" THEN IsInteger(v) /\ v.n >= 0
    ELSE IsNumber(v) /\ v.n >= 0

\* C10: for every configuration key and every value, set(key, value)
\* succeeds and stores the value if and only if the value satisfies the
\* validator of the key.
C10_SetSucceedsIffValid ==
    (res.op = "set" /\ res.key \in SeqRange(valid_keys))
        => /\ (res.err = "ok") <=> Validator(res.key, res.val)
           /\ (res.err = "ok") => cfg[res.c][res.key] = res.val

C10_Witness ==
    /\ res.op = "set"
    /\ res.err = "ok"
    /\ res.key = "Number of Cells"
    /\ cfg[res.c]["Number of Cells"] = res.val
    /\ cfg[res.c]["Frequency"] # NaN

\* C11: for every known key and every value that fails the validator of
\* the key, values of the wrong type included, set(key, value) fails with
\* ValueError and no other error, and no stored value changes.
C11_InvalidValueIsValueError ==
    [][(/\ res'.op = "set"
        /\ res'.key \in SeqRange(valid_keys)
        /\ ~ Validator(res'.key, res'.val))
            => (res'.err = "ValueError" /\ cfg' = cfg)]_vars

\* C12: get(key) and set(key, value) with a key outside the fixed key set
\* fail with KeyError, whatever the value, and leave the configuration
\* unchanged.
C12_UnknownKeyIsKeyError ==
    [][(res'.op \in {"get", "set"} /\ res'.key \notin SeqRange(valid_keys))
            => (res'.err = "KeyError" /\ cfg' = cfg)]_vars

C12_Witness ==
    /\ res.op = "set"
    /\ res.key = "Instrument"
    /\ \A k \in SeqRange(valid_keys) : ~ Validator(k, res.val)
    /\ res.err = "KeyError"
    /\ cfg[res.c] # NewConfig

\* the entries of a mapping that set fails on
BadEntries(items) ==
    {n \in 1..Len(items) :
        items[n][1] \notin SeqRange(valid_keys) \/ ~ Validator(items[n][1], items[n][2])}

\* the entries of a mapping before the first one that fails
Applied(items) ==
    {n \in 1..Len(items) : \A m \in BadEntries(items) : n < m}

\* C13: update(mapping) applies the entries in order and stops at the first
\* entry whose key is unknown or whose value is invalid: the entries before
\* it are stored, that entry and the later ones are not, and its error is
\* raised.
C13_UpdateStopsAtFirstFailure ==
    [][res'.op = "update"
          => LET items == res'.items
                 pre   == cfg[res'.c]
                 post  == cfg'[res'.c]
                 bad   == BadEntries(items)
             IN /\ \A n \in Applied(items) : post[items[n][1]] = items[n][2]
                /\ \A k \in DOMAIN pre :
                      (\A n \in Applied(items) : items[n][1] # k) => post[k] = pre[k]
                /\ (res'.err = "ok") <=> (bad = {})
                /\ \A n \in bad :
                      Applied(items) = 1..(n - 1)
                          => IF items[n][1] \notin SeqRange(valid_keys)
                             THEN res'.err = "KeyError"
                             ELSE res'.err \in {"ValueError", "TypeError"}]_vars

C13_Witness ==
    /\ res.op = "update"
    /\ res.items = BadItems
    /\ res.err = "ValueError"
    /\ cfg[res.c]["Frequency"] = PyInt(1)
    /\ cfg[res.c]["Slant Angle"] # PyInt(1)
    /\ cfg[res.c]["Cell Size"] # PyFloat(MinNum)

\* C14: after creation and after any sequence of get, set and update calls,
\* successful or failed, the key set of a configuration is the fixed key set
\* it was created with.
C14_KeySetFixed ==
    \A c \in CfgIds : DOMAIN cfg[c] = SeqRange(valid_keys)

C14_Witness ==
    /\ res.op = "set"
    /\ res.key = "Instrument"
    /\ res.err # "ok"
    /\ nops = MaxCfgOps
    /\ DOMAIN cfg[res.c] = SeqRange(valid_keys)

\* C15: update() with a mapping that contains the key 'Instrument' succeeds
\* on a new ADVMConfigParam, and get('Instrument') and get_dict() then
\* return that entry.
C15_InstrumentIsStored ==
    (res.op = "update" /\ \E n \in 1..Len(res.items) : res.items[n][1] = "Instrument")
        => /\ res.err = "ok"
           /\ "Instrument" \in DOMAIN cfg[res.c]
           /\ __getitem__(cfg[res.c], "Instrument") = [val |-> PyStr("SL"), err |-> "ok"]

SaidToBeKept(name) ==
    \/ name \in {cTemp, cVbeam, cVerticalBeam}
    \/ /\ Len(name) \in {9, 10}
       /\ SubSeq(name, 1, 4) = <<"C", "e", "l", "l">>
       /\ name[5] \in Digits
       /\ name[6] \in Digits
       /\ \/ Len(name) = 10 /\ SubSeq(name, 7, 9) \in {<<"A", "m", "p">>, <<"S", "N", "R">>}
          \/ Len(name) = 9 /\ SubSeq(name, 7, 8) \in {<<"V", "x">>, <<"V", "y">>}
       /\ name[Len(name)] \in Digits

\* C17: a constructed container has a column of the input table if and only
\* if its name is Temp, Vbeam, Vertical Beam or Cell<2 digits>(Amp|SNR|Vx|Vy)
\* <1 digit>
C17_KeepsAcousticAndVelocityColumns ==
    res.op = "construct" =>
        \A c \in SourceCols(res.src) :
            c \in objs[res.out].dm.data.cols <=> SaidToBeKept(c)

\* the origin labels of a provenance table
Labels(o) == {r[2] : r \in o}

\* C18: in every container built from a (table, provenance) pair and in
\* every container returned by add_data, every data column has at least one
\* provenance entry and every provenance entry names a variable that matches
\* the acoustic naming pattern
C18_ProvenanceCoversColumns ==
    \A n \in 1..Len(objs) :
        /\ \A c \in objs[n].dm.data.cols : \E r \in objs[n].dm.origin : r[1] = c
        /\ \A r \in objs[n].dm.origin : SaidToBeKept(r[1])

\* a merged container with columns of two sources, whose tables had columns
\* outside the pattern
C18_Witness ==
    /\ Returned
    /\ Cardinality(Labels(Result.dm.origin)) = 2
    /\ {cCell01Amp1, cCell01SNR1} \subseteq Result.dm.data.cols
    /\ \E p \in Sources : \E c \in SourceCols(p) : ~ SaidToBeKept(c)

\* C19: the table of every container has one row per timestamp (one cell
\* for each timestamp and column), and the timestamps of the container
\* returned by self.add_data(other, policy) are exactly those of self
\* together with those of other
C19_TimestampsAreTheUnion ==
    /\ \A n \in 1..Len(objs) :
            DOMAIN objs[n].dm.data.val = objs[n].dm.data.idx \X objs[n].dm.data.cols
    /\ Returned => Result.dm.data.idx = Self.dm.data.idx \cup Other.dm.data.idx

\* a merge of operands that share no timestamp, under a policy
C19_Witness ==
    /\ Returned
    /\ res.keep = "True"
    /\ Self.dm.data.idx \cap Other.dm.data.idx = {}
    /\ Result.dm.data.idx = Times
    /\ Self.dm.data.idx # Times
    /\ Other.dm.data.idx # Times

\* C20: when two compatible containers share no timestamp, the provenance of
\* the container returned by add_data is, as a set, the provenance of self
\* together with that of other; when each operand has one origin label and
\* the two labels differ, the result has exactly two origin labels
C20_ProvenanceIsTheUnion ==
    (/\ Returned
     /\ is_compatible(Self.conf, Other.conf)
     /\ Self.dm.data.idx \cap Other.dm.data.idx = {})
        => /\ Result.dm.origin = Self.dm.origin \cup Other.dm.origin
           /\ (/\ Cardinality(Labels(Self.dm.origin)) = 1
               /\ Cardinality(Labels(Other.dm.origin)) = 1
               /\ Labels(Self.dm.origin) # Labels(Other.dm.origin))
                  => Cardinality(Labels(Result.dm.origin)) = 2

C20_Witness ==
    /\ Returned
    /\ is_compatible(Self.conf, Other.conf)
    /\ Self.dm.data.idx \cap Other.dm.data.idx = {}
    /\ Cardinality(Labels(Self.dm.origin)) = 1
    /\ Cardinality(Labels(Other.dm.origin)) = 1
    /\ Labels(Self.dm.origin) # Labels(Other.dm.origin)
    /\ Labels(Result.dm.origin) = {SourceLabel(1), SourceLabel(2)}

\* the two containers share no timestamp
Disjoint(a, b) == a.dm.data.idx \cap b.dm.data.idx = {}

\* C21: for compatible containers A and B of the same class that share no
\* timestamp, A.add_data(B) and B.add_data(A) both succeed and return the
\* same table (timestamps, columns, values) and the same set of provenance
\* entries; each result has the configuration of the operand it was called on
C21_MergeCommutesOnDisjointTimes ==
    (/\ IsAddData
     /\ Self.cls = Other.cls
     /\ is_compatible(Self.conf, Other.conf)
     /\ Disjoint(Self, Other))
        => /\ res.err = "ok"
           /\ LET r == add_data(Other, Self, res.keep)
              IN /\ r.err = "ok"
                 /\ r.obj.dm.data = Result.dm.data
                 /\ r.obj.dm.origin = Result.dm.origin
                 /\ r.obj.conf = Other.conf
                 /\ Result.conf = Self.conf

\* a merge without policy of two tables of different sources and columns,
\* under configurations that differ on a key that is not compared
C21_Witness ==
    /\ Returned
    /\ res.keep = "None"
    /\ Self.cls = Other.cls
    /\ is_compatible(Self.conf, Other.conf)
    /\ Disjoint(Self, Other)
    /\ Self.dm.data.cols # Other.dm.data.cols
    /\ Self.dm.origin # Other.dm.origin
    /\ Self.conf # Other.conf
    /\ add_data(Other, Self, "None").obj.dm = Result.dm

\* C22: for a container A whose five compared keys are set, the call
\* A.add_data(copy.deepcopy(A), keep_curr_obs=True) that follows the copy
\* succeeds and returns a container whose table is A's table: the same
\* timestamps, columns and values
C22_MergeWithOwnCopyIsIdentity ==
    [][(/\ res.op = "deepcopy_data"
        /\ res'.op = "add_data"
        /\ res'.i = res.i
        /\ res'.j = res.out
        /\ res'.keep = "True"
        /\ \A k \in ComparedKeys : objs[res.i].conf[k] # NaN)
            => (/\ res'.err = "ok"
                /\ objs'[res'.out].dm.data = objs[res.i].dm.data)]_vars

\* a container with values merged with an equal container that is another
\* object
C22_Witness ==
    /\ Returned
    /\ res.keep = "True"
    /\ res.i # res.j
    /\ Other = Self
    /\ \A k \in ComparedKeys : Self.conf[k] # NaN
    /\ \E t \in Self.dm.data.idx, c \in Self.dm.data.cols : CellOf(Self.dm.data, t, c) # NA
    /\ Result.dm.data = Self.dm.data

\* the name said to be that of the column of cell i, for i below 10
SaidRangeName(i) == <<"R", "0", "0", DigitChar(i)>>

\* the container and the table of the last get_cell_range
Asked == objs[res.i]
Range == ret.dm.data

\* C23: for a container with Number of Cells = N, get_cell_range returns a
\* table with exactly the N columns R001..R{N} and exactly the timestamps of
\* the container's data, all rows being identical; a second call on the same
\* container returns an equal table
C23_RangeTableShape ==
    /\ [](((res.op = "get_cell_range" /\ Asked.conf["Number of Cells"].t = "int")
            => /\ res.err = "ok"
               /\ Range.cols = {SaidRangeName(i) : i \in 1..Asked.conf["Number of Cells"].n}
               /\ Cardinality(Range.cols) = Asked.conf["Number of Cells"].n
               /\ Range.idx = Asked.dm.data.idx
               /\ DOMAIN Range.val = Range.idx \X Range.cols
               /\ \A t \in Range.idx, u \in Range.idx, c \in Range.cols :
                      Range.val[<<t, c>>] = Range.val[<<u, c>>]))
    /\ [][(res.op = "get_cell_range" /\ res'.op = "get_cell_range" /\ res'.i = res.i)
              => ret' = ret]_vars

\* a table of two rows and the largest number of cells
C23_Witness ==
    /\ res.op = "get_cell_range"
    /\ res.err = "ok"
    /\ Asked.conf["Number of Cells"] = PyInt(MaxNum + 1)
    /\ Cardinality(Range.cols) = MaxNum + 1
    /\ Range.idx = Times

\* twice the offset factor said to be that of the class
SaidOffset(cls) == IF cls = "ArgonautADVMData" THEN 1 ELSE IF cls = "SL3GADVMData" THEN 3 ELSE 2

\* twice blanking_distance + f * cell_size + (i - 1) * cell_size under conf
SaidRange(conf, f2, i) ==
    Half(2 * conf["Blanking Distance"].n + f2 * conf["Cell Size"].n
            + 2 * (i - 1) * conf["Cell Size"].n)

\* C24: for every cell i in 1..N the cell range of an Argonaut container is
\* blanking_distance + 0.5 * cell_size + (i - 1) * cell_size and that of an
\* SL3G container blanking_distance + 1.5 * cell_size + (i - 1) * cell_size,
\* in every row, also for a container returned by add_data
C24_SonTekCellRange ==
    (/\ res.op = "get_cell_range"
     /\ res.err = "ok"
     /\ Asked.cls \in Classes)
        => \A t \in Range.idx, i \in 1..Asked.conf["Number of Cells"].n :
               Range.val[<<t, SaidRangeName(i)>>] = SaidRange(Asked.conf, SaidOffset(Asked.cls), i)

\* the cell range of an SL3G container that add_data returned, with several
\* cells of a size above zero
C24_Witness ==
    /\ res.op = "get_cell_range"
    /\ res.err = "ok"
    /\ Asked.cls = "SL3GADVMData"
    /\ Cardinality(Labels(Asked.dm.origin)) = 2
    /\ Asked.conf["Number of Cells"].n >= 2
    /\ Asked.conf["Cell Size"].n > 0
    /\ \A t \in Range.idx : Range.val[<<t, SaidRangeName(2)>>] = SaidRange(Asked.conf, 3, 2)

\* C25: for the Nortek containers (Aquadopp and EZQ) the range of cell i, for
\* i in 1..N, is blanking_distance + i * cell_size
C25_NortekCellRange ==
    (/\ res.op = "get_cell_range"
     /\ res.err = "ok"
     /\ Asked.cls \in NortekClasses)
        => \A t \in Range.idx, i \in 1..Asked.conf["Number of Cells"].n :
               Range.val[<<t, SaidRangeName(i)>>] = SaidRange(Asked.conf, SaidOffset(Asked.cls), i)

ReadOps == {"read_argonaut_data", "read_sl3g_mat", "read_ezq_data", "read_aquadopp_data"}

\* the instrument code of the container a reader is said to return
SaidCode(op) ==
    IF op = "read_argonaut_data" THEN "SL"
    ELSE IF op = "read_sl3g_mat" THEN "SL3G"
    ELSE IF op = "read_ezq_data" THEN "EZQ"
    ELSE "AQD"

\* C26: every format reader returns a container, and every provenance entry
\* of that container has the origin label '<path> (<instrument code>)': the
\* data set path, one space, and the instrument code in parentheses
C26_ReaderOriginLabel ==
    res.op \in ReadOps
        => /\ res.err = "ok"
           /\ \A r \in Result.dm.origin :
                  r[2] = <<res.c, " ", "(", SaidCode(res.op), ")">>

\* the timestamps both operands have
Shared == Self.dm.data.idx \cap Other.dm.data.idx

\* some (timestamp, variable) has a value in both operands
Conflict ==
    \E t \in Shared, c \in Self.dm.data.cols : BothHave(Self.dm.data, Other.dm.data, t, c)

\* C27: for compatible containers that share timestamps, add_data without a
\* duplicate policy succeeds when no (timestamp, variable) has a value on
\* both sides, and at a shared timestamp the merged row holds each operand's
\* values for the variables that operand has a value for
C27_MergeOnSharedTimesWithoutConflict ==
    (/\ IsAddData
     /\ res.keep = "None"
     /\ is_compatible(Self.conf, Other.conf)
     /\ Shared # {}
     /\ ~ Conflict)
        => /\ res.err = "ok"
           /\ \A t \in Shared, c \in Self.dm.data.cols \cup Other.dm.data.cols :
                  /\ CellOf(Self.dm.data, t, c) # NA
                        => CellOf(Result.dm.data, t, c) = CellOf(Self.dm.data, t, c)
                  /\ CellOf(Other.dm.data, t, c) # NA
                        => CellOf(Result.dm.data, t, c) = CellOf(Other.dm.data, t, c)

\* at a shared timestamp each operand has a value the other has not, and the
\* result has both
C27_Witness ==
    /\ Returned
    /\ res.keep = "None"
    /\ is_compatible(Self.conf, Other.conf)
    /\ ~ Conflict
    /\ \E t \in Shared :
          /\ \E c \in Self.dm.data.cols :
                /\ CellOf(Self.dm.data, t, c) # NA
                /\ CellOf(Other.dm.data, t, c) = NA
                /\ CellOf(Result.dm.data, t, c) = CellOf(Self.dm.data, t, c)
          /\ \E c \in Other.dm.data.cols :
                /\ CellOf(Other.dm.data, t, c) # NA
                /\ CellOf(Self.dm.data, t, c) = NA
                /\ CellOf(Result.dm.data, t, c) = CellOf(Other.dm.data, t, c)

\* C28: when the two configurations are incompatible and some (timestamp,
\* variable) has a value on both sides, add_data without a duplicate policy
\* raises the incompatible-data error, not the concurrent-observation error
C28_IncompatibilityFirst ==
    (/\ IsAddData
     /\ res.keep = "None"
     /\ ~ is_compatible(Self.conf, Other.conf)
     /\ Conflict)
        => res.err = "ADVMDataIncompatibleError"

\* C29: over set and update calls a key that holds a value other than NaN
\* keeps holding one, and a set of NaN is rejected for every key
C29_NeverBackToUnset ==
    [][(res'.op \in {"set", "update"})
          => /\ \A c \in CfgIds : \A k \in DOMAIN cfg[c] :
                    cfg[c][k] # NaN => (k \in DOMAIN cfg'[c] /\ cfg'[c][k] # NaN)
             /\ (res'.op = "set" /\ res'.val = NaN) => res'.err # "ok"]_vars

\* NaN was given for a key that holds a value, and the value is still there
C29_Witness ==
    /\ res.op = "set"
    /\ res.val = NaN
    /\ res.key \in SeqRange(valid_keys)
    /\ res.err = "ValueError"
    /\ cfg[res.c][res.key] # NaN

\* C30: when A.add_data(B, policy) succeeds for two containers of the same
\* class, the configuration of the result is compatible with A's and with
\* B's, and add_data between the result and any container whose
\* configuration is compatible with A's does not raise the incompatible-data
\* error, under any policy and in either order
C30_MergeClosedUnderCompatibility ==
    (Returned /\ Self.cls = Other.cls)
        => /\ is_compatible(Result.conf, Self.conf)
           /\ is_compatible(Result.conf, Other.conf)
           /\ \A n \in 1..Len(objs), keep \in Policies :
                  is_compatible(Self.conf, objs[n].conf)
                      => /\ add_data(Result, objs[n], keep).err # "ADVMDataIncompatibleError"
                         /\ add_data(objs[n], Result, keep).err # "ADVMDataIncompatibleError"

\* a merge of two containers of one class whose configurations differ on a
\* key that is not compared; the result then merges with the second operand
C30_Witness ==
    /\ Returned
    /\ res.i # res.j
    /\ Self.cls = Other.cls
    /\ Self.conf # Other.conf
    /\ is_compatible(Result.conf, Other.conf)
    /\ add_data(Result, Other, "True").err = "ok"
    /\ add_data(Other, Result, "True").err = "ok"

====
